---------------------------- MODULE Spec2Model ----------------------------
(***************************************************************************)
(* A model of the rna_secondary_structure crate: the dot-bracket codec     *)
(* (from_dotbracketstring, get_dot_bracket_string) and the pseudoknot      *)
(* classifier (is_pseudoknotted) of secondary_structure.rs, the record     *)
(* type SecondaryStructureRecord with its constructors and setters, the    *)
(* mountain metric of distance_metrics.rs, and the connect (CT) format of  *)
(* io.rs.  Each part has its own specification: Spec, SpecRecord,          *)
(* SpecMetric and SpecCT; SpecScan runs the encoder's loop site by site.   *)
(*                                                                         *)
(* A Rust char is a one-character string, a Rust String or &str is a       *)
(* sequence of chars, a Vec<i64> is a sequence of integers.  Rust indexes  *)
(* from 0 and TLA+ from 1: the values the code stores (stack entries,      *)
(* partner positions, error positions) are kept exactly as the code has    *)
(* them, and only the access s[i + 1] shifts the index.  A Result is a     *)
(* record tagged "Ok" or "Err"; a panic (unwrap on None) is the outcome    *)
(* tagged "Panic".                                                         *)
(***************************************************************************)

EXTENDS Integers, Sequences, FiniteSets, TLC

VARIABLES
    src,     \* "array" or "string": what the caller handed in
    dbs,     \* the dot bracket string handed to from_dotbracketstring
    paired,  \* the paired sites array (given, or the one parsed from dbs)
    dec,     \* result of from_dotbracketstring(dbs)
    enc,     \* result of get_dot_bracket_string(paired)
    rt,      \* result of from_dotbracketstring on the encoded string
    pk,      \* result of is_pseudoknotted(paired)
    met,     \* the mountain metric calls: their arguments and results
    rec,     \* a SecondaryStructureRecord and the last call made on it
    ct,      \* the connect format calls: records, text written, records parsed
    scan     \* get_dot_bracket_string site by site: its array, index and stacks

vars == <<src, dbs, paired, dec, enc, rt, pk, met, rec, ct, scan>>

---------------------------------------------------------------------------
(* Bounds of the model *)

\* longest enumerated paired sites array that satisfies symmetric pairing
MaxLen == 8
\* longest enumerated array of arbitrary integers
MaxBadLen == 3
\* longest enumerated input string
MaxStrLen == 4
\* most pairs of an array whose class assignments are enumerated
MaxColourPairs == 5

\* the longest array handed to the mountain metric
MaxMetricLen == 4

\* the longest sequence and array handed to a record's constructor and setters
MaxRecordLen == 3

\* the most records written to one connect format text
MaxRecords == 2

\* the most blank lines put between two records of a text
MaxBlankLines == 2

---------------------------------------------------------------------------
(* The bracket alphabet *)

LEFT_BRACKETS ==
    << "(", "<", "{", "[", "A", "B", "C", "D", "E", "F", "G", "H", "I", "J",
       "K", "L", "M", "N", "O", "P", "Q", "R", "S", "T", "U", "V", "W", "X",
       "Y", "Z" >>

RIGHT_BRACKETS ==
    << ")", ">", "}", "]", "a", "b", "c", "d", "e", "f", "g", "h", "i", "j",
       "k", "l", "m", "n", "o", "p", "q", "r", "s", "t", "u", "v", "w", "x",
       "y", "z" >>

\* A char outside ASCII: two bytes in UTF-8 (str::len counts bytes).
NonAscii == "U+00E9"

\* char::len_utf8
Utf8Len(c) == IF c = NonAscii THEN 2 ELSE 1

RECURSIVE ByteLen(_)
\* str::len: the length in bytes
ByteLen(s) == IF s = <<>> THEN 0 ELSE Utf8Len(Head(s)) + ByteLen(Tail(s))

\* str::contains(char)
Contains(s, c) == \E k \in 1..Len(s) : s[k] = c

\* str::find(char).unwrap(): the 0-based index of the first occurrence
\* (used only where Contains(s, c) holds; the alphabets are ASCII, so byte
\* index and char index agree)
Find(s, c) == (CHOOSE k \in 1..Len(s) : s[k] = c /\ \A m \in 1..(k - 1) : s[m] # c) - 1

\* str::find(char).unwrap_or(d)
FindOr(s, c, d) == IF Contains(s, c) THEN Find(s, c) ELSE d

is_left_bracket(brace) == Contains(LEFT_BRACKETS, brace)

is_right_bracket(brace) == Contains(RIGHT_BRACKETS, brace)

\* get_matching_bracket with the partner read one place too far to the right
get_matching_bracket_shifted(brace) ==
    LET left_pos == FindOr(LEFT_BRACKETS, brace, 1000)
        right_pos == FindOr(RIGHT_BRACKETS, brace, 1000)
    IN  IF left_pos # 1000
        THEN [tag |-> "Ok", val |-> RIGHT_BRACKETS[((left_pos + 1) % Len(RIGHT_BRACKETS)) + 1]]
        ELSE IF right_pos # 1000
        THEN [tag |-> "Ok", val |-> LEFT_BRACKETS[((right_pos + 1) % Len(LEFT_BRACKETS)) + 1]]
        ELSE [tag |-> "Err", kind |-> "BracketTypeNotRecognised", c |-> brace]

get_matching_bracket(brace) ==
    LET left_pos == FindOr(LEFT_BRACKETS, brace, 1000)
        right_pos == FindOr(RIGHT_BRACKETS, brace, 1000)
    IN  IF left_pos # 1000
        THEN [tag |-> "Ok", val |-> RIGHT_BRACKETS[left_pos + 1]]
        ELSE IF right_pos # 1000
        THEN [tag |-> "Ok", val |-> LEFT_BRACKETS[right_pos + 1]]
        ELSE [tag |-> "Err", kind |-> "BracketTypeNotRecognised", c |-> brace]

---------------------------------------------------------------------------
(* Vec helpers *)

\* Vec::last().unwrap() of a non-empty Vec
Last(s) == s[Len(s)]

\* the Vec after Vec::pop() (a pop of an empty Vec changes nothing)
Pop(s) == IF s = <<>> THEN s ELSE SubSeq(s, 1, Len(s) - 1)

\* vec![0; n]
Zeros(n) == [k \in 1..n |-> 0]

RECURSIVE GrowStacks(_, _)
\* while stacks.len() <= index { stacks.push(Vec::new()) }
GrowStacks(stacks, index) ==
    IF Len(stacks) <= index THEN GrowStacks(Append(stacks, <<>>), index) ELSE stacks

---------------------------------------------------------------------------
(* from_dotbracketstring *)

\* the state before the scan: _paired = vec![0; dbs.len()], one empty stack
DecInit(s) ==
    [paired |-> Zeros(ByteLen(s)), stacks |-> << <<>> >>, tag |-> "Run"]

\* DecStep with the opening site given the 0-based index of its partner
DecStep_zero_based(st, i, c) ==
    IF is_left_bracket(c)
    THEN LET index == Find(LEFT_BRACKETS, c)
             grown == GrowStacks(st.stacks, index)
         IN  [st EXCEPT !.stacks = [grown EXCEPT ![index + 1] = Append(@, i)]]
    ELSE IF is_right_bracket(c)
    THEN LET index == Find(RIGHT_BRACKETS, c)
         IN  IF index >= Len(st.stacks)
             THEN [tag |-> "Panic"]
             ELSE IF st.stacks[index + 1] # <<>>
             THEN LET j == Last(st.stacks[index + 1])
                  IN  [st EXCEPT !.stacks[index + 1] = Pop(@),
                                 !.paired = [@ EXCEPT ![i + 1] = j + 1,
                                                      ![j + 1] = i]]
             ELSE LET m == get_matching_bracket(c)
                  IN  IF m.tag # "Ok" THEN m
                      ELSE [tag |-> "Err", kind |-> "MissingLeftParentheses",
                            left |-> m.val, right |-> c, pos |-> i + 1]
    ELSE st

\* DecStep with the 0-based index reported as the position of the error
DecStep_pos_zero_based(st, i, c) ==
    IF is_left_bracket(c)
    THEN LET index == Find(LEFT_BRACKETS, c)
             grown == GrowStacks(st.stacks, index)
         IN  [st EXCEPT !.stacks = [grown EXCEPT ![index + 1] = Append(@, i)]]
    ELSE IF is_right_bracket(c)
    THEN LET index == Find(RIGHT_BRACKETS, c)
         IN  IF index >= Len(st.stacks)
             THEN [tag |-> "Panic"]
             ELSE IF st.stacks[index + 1] # <<>>
             THEN LET j == Last(st.stacks[index + 1])
                  IN  [st EXCEPT !.stacks[index + 1] = Pop(@),
                                 !.paired = [@ EXCEPT ![i + 1] = j + 1,
                                                      ![j + 1] = i + 1]]
             ELSE LET m == get_matching_bracket(c)
                  IN  IF m.tag # "Ok" THEN m
                      ELSE [tag |-> "Err", kind |-> "MissingLeftParentheses",
                            left |-> m.val, right |-> c, pos |-> i]
    ELSE st

\* one iteration of `for (i, c) in dbs.chars().enumerate()`
DecStep(st, i, c) ==
    IF is_left_bracket(c)
    THEN LET index == Find(LEFT_BRACKETS, c)
             grown == GrowStacks(st.stacks, index)
         IN  [st EXCEPT !.stacks = [grown EXCEPT ![index + 1] = Append(@, i)]]
    ELSE IF is_right_bracket(c)
    THEN LET index == Find(RIGHT_BRACKETS, c)
         IN  IF index >= Len(st.stacks)
             THEN [tag |-> "Panic"]       \* stacks.get(index).unwrap() on None
             ELSE IF st.stacks[index + 1] # <<>>
             THEN LET j == Last(st.stacks[index + 1])
                  IN  [st EXCEPT !.stacks[index + 1] = Pop(@),
                                 !.paired = [@ EXCEPT ![i + 1] = j + 1,
                                                      ![j + 1] = i + 1]]
             ELSE LET m == get_matching_bracket(c)
                  IN  IF m.tag # "Ok" THEN m
                      ELSE [tag |-> "Err", kind |-> "MissingLeftParentheses",
                            left |-> m.val, right |-> c, pos |-> i + 1]
    ELSE st

RECURSIVE DecScan(_, _, _)
\* the scan from the k-th char on, in state st: the state after the last char,
\* or the early return that ended the scan
DecScan(s, st, k) ==
    IF k > Len(s) \/ st.tag # "Run" THEN st
    ELSE DecScan(s, DecStep(st, k - 1, s[k]), k + 1)

RECURSIVE DecFinish_first_pushed(_, _, _)
\* DecFinish reporting the bottom entry of the stack instead of its top
DecFinish_first_pushed(s, st, k) ==
    IF k > Len(st.stacks) THEN [tag |-> "Ok", val |-> st.paired]
    ELSE IF st.stacks[k] # <<>>
    THEN LET j == st.stacks[k][1]
             c == s[j + 1]
             m == get_matching_bracket(c)
         IN  IF m.tag # "Ok" THEN m
             ELSE [tag |-> "Err", kind |-> "MissingRightParentheses",
                   left |-> c, right |-> m.val, pos |-> j + 1]
    ELSE DecFinish_first_pushed(s, st, k + 1)

RECURSIVE DecFinish(_, _, _)
\* `for stack in stacks.iter()` from stack number k on, then Ok(_paired)
DecFinish(s, st, k) ==
    IF k > Len(st.stacks) THEN [tag |-> "Ok", val |-> st.paired]
    ELSE IF st.stacks[k] # <<>>
    THEN LET j == Last(st.stacks[k])
             c == s[j + 1]
             m == get_matching_bracket(c)
         IN  IF m.tag # "Ok" THEN m
             ELSE [tag |-> "Err", kind |-> "MissingRightParentheses",
                   left |-> c, right |-> m.val, pos |-> j + 1]
    ELSE DecFinish(s, st, k + 1)

from_dotbracketstring(s) ==
    LET st == DecScan(s, DecInit(s), 1)
    IN  IF st.tag # "Run" THEN st ELSE DecFinish(s, st, 1)

---------------------------------------------------------------------------
(* get_dot_bracket_string *)

\* the state before the scan: one empty stack, dbn = ""
EncInit == [stacks |-> << <<>> >>, dbn |-> <<>>, tag |-> "Run"]

\* ClassAccepts with the comparison turned round
ClassAccepts_flipped(stacks, index, j) ==
    \/ index >= Len(stacks)
    \/ stacks[index + 1] = <<>>
    \/ j > Last(stacks[index + 1])

\* ClassAccepts without the nesting alternative: only an empty stack accepts
ClassAccepts_empty_only(stacks, index, j) ==
    \/ index >= Len(stacks)
    \/ stacks[index + 1] = <<>>

\* ClassAccepts with no test at all: class 0 takes every pair
ClassAccepts_always(stacks, index, j) == TRUE

\* `stack.is_empty() || j < *stack.last().unwrap()` for the stack of class
\* `index`; a stack the loop has to add first is empty
ClassAccepts(stacks, index, j) ==
    \/ index >= Len(stacks)
    \/ stacks[index + 1] = <<>>
    \/ j < Last(stacks[index + 1])

\* AcceptingClasses with the last class of the alphabet left out
AcceptingClasses_one_short(stacks, j) ==
    {index \in 0..(Len(LEFT_BRACKETS) - 2) :
        \/ index >= Len(stacks)
        \/ stacks[index + 1] = <<>>
        \/ j < Last(stacks[index + 1])}

\* the classes `for (index, left) in LEFT_BRACKETS.chars().enumerate()` can
\* stop at
AcceptingClasses(stacks, j) ==
    {index \in 0..(Len(LEFT_BRACKETS) - 1) : ClassAccepts(stacks, index, j)}

\* FirstClass taking the last class that accepts
FirstClass_highest(cands) == CHOOSE index \in cands : \A other \in cands : index >= other

\* the class the loop breaks at: the first one that accepts
FirstClass(cands) == CHOOSE index \in cands : \A other \in cands : index <= other

\* one iteration of `for (i, j) in paired.iter().enumerate()`
EncStep(st, i, j) ==
    IF j = 0
    THEN [st EXCEPT !.dbn = Append(@, ".")]
    ELSE IF i < j
    THEN LET cands == AcceptingClasses(st.stacks, j)
         IN  IF cands = {}
             THEN [tag |-> "Err", kind |-> "InsufficientBracketTypes"]
             ELSE LET index == FirstClass(cands)
                      grown == GrowStacks(st.stacks, index)
                  IN  [st EXCEPT !.stacks = [grown EXCEPT ![index + 1] = Append(@, j)],
                                 !.dbn = Append(@, LEFT_BRACKETS[index + 1])]
    ELSE IF j - 1 < 0 \/ j - 1 >= Len(st.dbn)
    THEN [tag |-> "Panic"]       \* dbn.chars().nth((j - 1) as usize).unwrap() on None
    ELSE LET left == st.dbn[j]   \* the char at 0-based index j - 1
         IN  IF ~Contains(LEFT_BRACKETS, left)
             THEN [tag |-> "Panic"]       \* LEFT_BRACKETS.find(left).unwrap() on None
             ELSE LET index == Find(LEFT_BRACKETS, left)
                      right == get_matching_bracket(left)
                  IN  [st EXCEPT !.stacks[index + 1] = Pop(@),
                                 !.dbn = Append(@, right.val)]

RECURSIVE EncScan(_, _, _, _)
\* the scan of sites k..n (1-based), in state st: the state after site n, or
\* the early exit that ended the scan
EncScan(p, st, k, n) ==
    IF k > n \/ st.tag # "Run" THEN st
    ELSE EncScan(p, EncStep(st, k - 1, p[k]), k + 1, n)

get_dot_bracket_string(p) ==
    LET st == EncScan(p, EncInit, 1, Len(p))
    IN  IF st.tag # "Run" THEN st ELSE [tag |-> "Ok", val |-> st.dbn]

---------------------------------------------------------------------------
(* is_pseudoknotted *)

\* PkStep without the pop at a closing site
PkStep_no_pop(st, i, j) ==
    IF j = 0 THEN st
    ELSE IF i < j
    THEN IF st.stack # <<>> /\ j >= Last(st.stack)
         THEN [tag |-> "Ok", val |-> TRUE]
         ELSE [st EXCEPT !.stack = Append(@, j)]
    ELSE IF st.stack # <<>>
    THEN st
    ELSE [tag |-> "Err", kind |-> "InputConsumed"]

\* one iteration of `for (i, j) in paired.iter().enumerate()`; st.stack is the
\* stack, and a tag other than "Run" is the value returned from inside the loop
PkStep(st, i, j) ==
    IF j = 0 THEN st
    ELSE IF i < j
    THEN IF st.stack # <<>> /\ j >= Last(st.stack)
         THEN [tag |-> "Ok", val |-> TRUE]
         ELSE [st EXCEPT !.stack = Append(@, j)]
    ELSE IF st.stack # <<>>
    THEN [st EXCEPT !.stack = Pop(@)]
    ELSE [tag |-> "Err", kind |-> "InputConsumed"]

RECURSIVE PkScan(_, _, _)
\* the scan from site k on (1-based), in state st
PkScan(p, st, k) ==
    IF k > Len(p) \/ st.tag # "Run" THEN st
    ELSE PkScan(p, PkStep(st, k - 1, p[k]), k + 1)

is_pseudoknotted(p) ==
    LET st == PkScan(p, [stack |-> <<>>, tag |-> "Run"], 1)
    IN  IF st.tag # "Run" THEN st
        ELSE IF st.stack # <<>> THEN [tag |-> "Err", kind |-> "InputNotConsumed"]
        ELSE [tag |-> "Ok", val |-> FALSE]

---------------------------------------------------------------------------
(* distance_metrics.rs: the mountain metric.                               *)
(*                                                                         *)
(* The heights of the unweighted mountain vector are whole numbers, which  *)
(* an f64 holds exactly, so the unweighted vector and distance are         *)
(* integers.  The quotients and the weighted heights are f64 values with   *)
(* their rounding (to nearest, ties to even):                              *)
(*   [kind |-> "num", neg, exp, man]  the finite value                     *)
(*        (-1)^neg * m * 2^(exp - 52), where m is the number written in    *)
(*        binary by the 53 bits of man (first bit 1, most significant      *)
(*        first);                                                          *)
(*   [kind |-> "zero"]                0.0;                                 *)
(*   [kind |-> "inf", neg]            +inf or -inf;                        *)
(*   [kind |-> "nan"]                 NaN.                                 *)
(* Exponents stay far from the ends of the f64 range, so overflow and      *)
(* subnormal values do not occur.  The exponent p is None or Some(k) for a *)
(* small natural number k.                                                 *)

Some(v) == [tag |-> "Some", val |-> v]

\* p.unwrap_or(1.0)
unwrap_or(p, default) == IF p.tag = "Some" THEN p.val ELSE default

Abs(x) == IF x < 0 THEN -x ELSE x

\* the number of significant bits of an f64
MantissaBits == 53

ZeroBits(n) == [k \in 1..n |-> 0]

\* bits (most significant first) without their leading zeros
Strip(bits) ==
    LET ones == {k \in 1..Len(bits) : bits[k] = 1}
    IN  IF ones = {} THEN <<>>
        ELSE SubSeq(bits, CHOOSE k \in ones : \A m \in ones : k <= m, Len(bits))

\* a carry enters bit k of a + b: a bit after k is 1 in both, and every bit
\* between is 1 in one of them
CarryInto(a, b, k) ==
    \E j \in (k + 1)..Len(a) :
        a[j] + b[j] = 2 /\ \A m \in (k + 1)..(j - 1) : a[m] + b[m] = 1

\* the sum of two bit strings of one length
AddBits(a, b) ==
    LET s == [k \in 1..Len(a) |->
                 (a[k] + b[k] + (IF CarryInto(a, b, k) THEN 1 ELSE 0)) % 2]
    IN  IF CarryInto(a, b, 0) THEN <<1>> \o s ELSE SubSeq(s, 1, Len(a))

\* bit k of a - b borrows: a bit after k is less in a than in b, and every
\* bit between is the same in both
BorrowInto(a, b, k) ==
    \E j \in (k + 1)..Len(a) :
        a[j] < b[j] /\ \A m \in (k + 1)..(j - 1) : a[m] = b[m]

\* the difference a - b of two bit strings of one length, a >= b
SubBits(a, b) ==
    [k \in 1..Len(a) |->
        (a[k] - b[k] - (IF BorrowInto(a, b, k) THEN 1 ELSE 0)) % 2]

\* a < b for two bit strings of one length
LessBits(a, b) == BorrowInto(a, b, 0)

NaN == [kind |-> "nan"]

Zero == [kind |-> "zero"]

Inf(neg) == [kind |-> "inf", neg |-> neg]

\* the f64 nearest to (-1)^neg * m * 2^scale, m > 0 written by bits (first
\* bit 1): the first 53 bits, rounded up when the rest is over half a unit
\* of the last place, or exactly half and the last bit is 1
RoundBits(neg, bits, scale) ==
    LET n    == Len(bits)
        exp  == scale + n - 1
        man  == IF n <= MantissaBits THEN bits \o ZeroBits(MantissaBits - n)
                ELSE SubSeq(bits, 1, MantissaBits)
        up   == /\ n > MantissaBits
                /\ bits[MantissaBits + 1] = 1
                /\ \/ man[MantissaBits] = 1
                   \/ \E k \in (MantissaBits + 2)..n : bits[k] = 1
        one  == ZeroBits(MantissaBits - 1) \o <<1>>
        inc  == AddBits(man, one)
    IN  IF ~up THEN [kind |-> "num", neg |-> neg, exp |-> exp, man |-> man]
        ELSE IF Len(inc) > MantissaBits
        THEN [kind |-> "num", neg |-> neg, exp |-> exp + 1,
              man |-> SubSeq(inc, 1, MantissaBits)]
        ELSE [kind |-> "num", neg |-> neg, exp |-> exp, man |-> inc]

RECURSIVE Normalise(_, _, _)
\* a, b and e with a / b * 2^e the quotient asked for and b <= a < 2b
Normalise(a, b, e) ==
    IF a >= 2 * b THEN Normalise(a, 2 * b, e + 1)
    ELSE IF a < b THEN Normalise(2 * a, b, e - 1)
    ELSE [a |-> a, b |-> b, e |-> e]

RECURSIVE Pow2Mod(_, _)
\* 2^k modulo b
Pow2Mod(k, b) ==
    IF k = 0 THEN 1 % b
    ELSE LET h == Pow2Mod(k \div 2, b)
         IN  (h * h * (IF k % 2 = 1 THEN 2 ELSE 1)) % b

\* the first n bits of a / b (b <= a < 2b) by long division, then a last bit
\* that is 1 when a remainder is left: the remainder before bit k + 2 is
\* a * 2^k modulo b
QuotientBits(a, b, n) ==
    [k \in 1..(n + 1) |->
        IF k = 1 THEN 1
        ELSE IF k <= n
        THEN (IF 2 * ((a * Pow2Mod(k - 2, b)) % b) >= b THEN 1 ELSE 0)
        ELSE (IF (a * Pow2Mod(n - 1, b)) % b # 0 THEN 1 ELSE 0)]

\* the f64 n / d for whole numbers n and d (as f64, d = 0 is +0.0)
Div(n, d) ==
    IF d = 0 THEN (IF n = 0 THEN NaN ELSE Inf(n < 0))
    ELSE IF n = 0 THEN Zero
    ELSE LET q    == Normalise(Abs(n), Abs(d), 0)
             bits == QuotientBits(q.a, q.b, MantissaBits + 1)
         IN  RoundBits((n < 0) # (d < 0), bits, q.e - (MantissaBits + 1))

\* x + y for two finite f64 other than zero, x.exp >= y.exp: the exact sum
\* in units of 2^(y.exp - 52), then rounded
AddAligned(x, y) ==
    LET shift == x.exp - y.exp
        xb    == x.man \o ZeroBits(shift)
        yb    == ZeroBits(shift) \o y.man
        scale == y.exp - (MantissaBits - 1)
    IN  IF x.neg = y.neg
        THEN RoundBits(x.neg, Strip(AddBits(xb, yb)), scale)
        ELSE IF xb = yb THEN Zero
        ELSE IF LessBits(xb, yb)
        THEN RoundBits(y.neg, Strip(SubBits(yb, xb)), scale)
        ELSE RoundBits(x.neg, Strip(SubBits(xb, yb)), scale)

\* f64 addition; an operand more than 2^56 times smaller than the other
\* does not change it
Add(x, y) ==
    IF x.kind = "nan" \/ y.kind = "nan" THEN NaN
    ELSE IF x.kind = "inf" /\ y.kind = "inf"
    THEN (IF x.neg = y.neg THEN x ELSE NaN)
    ELSE IF x.kind = "inf" THEN x
    ELSE IF y.kind = "inf" THEN y
    ELSE IF y.kind = "zero" THEN x
    ELSE IF x.kind = "zero" THEN y
    ELSE IF x.exp >= y.exp
    THEN (IF x.exp - y.exp > MantissaBits + 3 THEN x ELSE AddAligned(x, y))
    ELSE (IF y.exp - x.exp > MantissaBits + 3 THEN y ELSE AddAligned(y, x))

\* x.powf(p) for a whole number x and a natural exponent p: powf(x, 0) is 1
\* for every x, 0 included
RECURSIVE powf(_, _)
powf(x, p) == IF p = 0 THEN 1 ELSE x * powf(x, p - 1)

RECURSIVE MountainScan(_, _, _, _)
\* the loop of get_mountain_vector from 0-based index i on; prev is
\* mountain[i - 1], or 0 when i = 0
MountainScan(paired_, i, prev, acc) ==
    IF i >= Len(paired_) THEN acc
    ELSE LET j == paired_[i + 1]
             h == IF j # 0
                  THEN (IF j > i THEN prev + 1 ELSE prev - 1)
                  ELSE prev
         IN  MountainScan(paired_, i + 1, h, Append(acc, h))

get_mountain_vector(paired_) == MountainScan(paired_, 0, 0, <<>>)

RECURSIVE SumDiff_signed(_, _, _, _)
\* SumDiff without .abs()
SumDiff_signed(m1, m2, p, k) ==
    IF k > Len(m1) \/ k > Len(m2) THEN 0
    ELSE powf(m1[k] - m2[k], p) + SumDiff_signed(m1, m2, p, k + 1)

RECURSIVE SumDiff(_, _, _, _)
\* `for (a, b) in m1.iter().zip(m2) { d += (a - b).abs().powf(p) }` from the
\* k-th pair on
SumDiff(m1, m2, p, k) ==
    IF k > Len(m1) \/ k > Len(m2) THEN 0
    ELSE powf(Abs(m1[k] - m2[k]), p) + SumDiff(m1, m2, p, k + 1)

UnequalLength == [tag |-> "Err", kind |-> "UnequalLength"]

\* get_mountain_distance without the comparison of the lengths
get_mountain_distance_unchecked(paired1, paired2, p) ==
    [tag |-> "Ok",
     val |-> SumDiff(get_mountain_vector(paired1),
                     get_mountain_vector(paired2), unwrap_or(p, 1), 1)]

get_mountain_distance(paired1, paired2, p) ==
    IF Len(paired1) # Len(paired2) THEN UnequalLength
    ELSE [tag |-> "Ok",
          val |-> SumDiff(get_mountain_vector(paired1),
                          get_mountain_vector(paired2), unwrap_or(p, 1), 1)]

RECURSIVE StarScan(_, _, _, _)
\* `for i in 0..upper` of get_structure_star
StarScan(paired_, len, i, upper) ==
    IF i >= upper THEN paired_
    ELSE LET j == len - i - 1
         IN  StarScan([paired_ EXCEPT ![i + 1] = j + 1, ![j + 1] = i + 1],
                      len, i + 1, upper)

get_structure_star(len) ==
    StarScan(Zeros(len), len, 0, (len \div 2) - ((len + 1) % 2))

get_structure_zero(len) == Zeros(len)

\* the .unwrap() never fails: both structures have length len
get_mountain_diameter(len, p) ==
    get_mountain_distance(get_structure_star(len), get_structure_zero(len), p).val

get_normalised_mountain_distance(paired1, paired2, p) ==
    LET d == get_mountain_distance(paired1, paired2, p)
    IN  IF d.tag # "Ok" THEN d
        ELSE [tag |-> "Ok",
              val |-> Div(d.val, get_mountain_diameter(Len(paired1), p))]

\* `1.0 / ((*j - (i as i64)) as f64)`: the step at 0-based index i with
\* partner value j
WeightedStep(i, j) == Div(1, j - i)

RECURSIVE WeightedScan(_, _, _, _)
\* the loop of get_weighted_mountain_vector from 0-based index i on
WeightedScan(paired_, i, prev, acc) ==
    IF i >= Len(paired_) THEN acc
    ELSE LET j == paired_[i + 1]
             h == IF j # 0 THEN Add(prev, WeightedStep(i, j)) ELSE prev
         IN  WeightedScan(paired_, i + 1, h, Append(acc, h))

get_weighted_mountain_vector(paired_) == WeightedScan(paired_, 0, Zero, <<>>)

---------------------------------------------------------------------------
(* The inputs the model runs the functions on *)

RECURSIVE Matchings(_)
\* every way to join some of the sites of S in disjoint pairs <<i, j>>, i < j
Matchings(S) ==
    IF S = {} THEN {{}}
    ELSE LET i == CHOOSE x \in S : \A y \in S : x <= y
         IN  Matchings(S \ {i}) \cup
             UNION {{m \cup {<<i, j>>} : m \in Matchings(S \ {i, j})} : j \in S \ {i}}

\* the paired sites array of length n of a set of pairs (1-based positions)
ArrayOf(n, m) ==
    [k \in 1..n |->
        IF \E e \in m : e[1] = k THEN (CHOOSE e \in m : e[1] = k)[2]
        ELSE IF \E e \in m : e[2] = k THEN (CHOOSE e \in m : e[2] = k)[1]
        ELSE 0]

\* every array of length n that satisfies symmetric pairing
SymmetricArrays(n) == {ArrayOf(n, m) : m \in Matchings(1..n)}

\* k pairs that all cross each other: site i pairs with site i + k
Crossing(k) == [i \in 1..(2 * k) |-> IF i <= k THEN i + k ELSE i - k]

\* arrays taken from the crate's tests and doc comments
ExampleArrays ==
    { <<10, 7, 6, 0, 0, 3, 2, 0, 0, 1, 0, 0>>,
      <<5, 7, 6, 9, 1, 3, 2, 10, 4, 8, 0, 0>> }

ArrayInputs ==
    UNION {SymmetricArrays(n) : n \in 0..MaxLen}
    \cup UNION {[1..n -> (-1)..(n + 1)] : n \in 0..MaxBadLen}
    \cup {Crossing(k) : k \in 1..(Len(LEFT_BRACKETS) + 1)}
    \cup ExampleArrays

\* the chars of the enumerated strings: two bracket classes, the unpaired
\* marker, and two chars outside the alphabet
Chars == {"(", ")", "<", ">", ".", "-", NonAscii}

\* strings taken from the crate's tests, doc comments and examples, the
\* example without its first char, and a string that leaves several brackets
\* of two classes open
ExampleStrings ==
    { <<"(", "(", "(", ".", ".", ")", ")", ".", ".", ")", ".", ".">>,
      <<"<", "(", "a", ".", ".", "A", ")", ".", ".", ">", ".", ".">>,
      <<"<", "(", "A", ".", ".", "a", ")", ".", ".", ">", ".", ".">>,
      <<"(", "(", ".", ".", ")", ".", ".", ")", ".", "A", ">", ".", ".", "a">>,
      <<"<", "(", "(", ".", ".", ")", ".", ".", ")", ".", "A", ">", ".", ".", "a">>,
      <<"(", "[", "<", "(", "[">> }

\* for every class: its right bracket alone, after an unpaired site, after a
\* matched pair, and a matched pair
ClassStrings ==
    UNION {{ <<RIGHT_BRACKETS[k]>>,
             <<".", RIGHT_BRACKETS[k]>>,
             <<LEFT_BRACKETS[k], RIGHT_BRACKETS[k]>>,
             <<LEFT_BRACKETS[k], RIGHT_BRACKETS[k], RIGHT_BRACKETS[k]>> }
           : k \in 1..Len(LEFT_BRACKETS)}

StringInputs ==
    UNION {[1..n -> Chars] : n \in 0..MaxStrLen} \cup ClassStrings \cup ExampleStrings

---------------------------------------------------------------------------
(* The state machine: a caller hands in an array or a string and applies   *)
(* the crate's functions to it.                                            *)

None == [tag |-> "None"]

\* the part of the state a specification does not use
Idle == [tag |-> "Idle"]

Init ==
    /\ \/ src = "array" /\ paired \in ArrayInputs /\ dbs = <<>>
       \/ src = "string" /\ dbs \in StringInputs /\ paired = <<>>
    /\ dec = None
    /\ enc = None
    /\ rt = None
    /\ pk = None
    /\ met = Idle
    /\ rec = Idle
    /\ ct = Idle
    /\ scan = Idle

\* the caller holds a paired sites array
HasPaired == src = "array" \/ dec.tag = "Ok"

\* "...".parse::<SecondaryStructureRecord>(): from_dotbracketstring(dbs), and
\* the array becomes the record's paired field
Decode ==
    /\ src = "string"
    /\ dec = None
    /\ dec' = from_dotbracketstring(dbs)
    /\ paired' = IF dec'.tag = "Ok" THEN dec'.val ELSE paired
    /\ UNCHANGED <<src, dbs, enc, rt, pk, met, rec, ct, scan>>

\* get_dot_bracket_string(&paired)
Encode ==
    /\ HasPaired
    /\ enc = None
    /\ enc' = get_dot_bracket_string(paired)
    /\ UNCHANGED <<src, dbs, paired, dec, rt, pk, met, rec, ct, scan>>

\* from_dotbracketstring on the string the encoder returned
Redecode ==
    /\ enc.tag = "Ok"
    /\ rt = None
    /\ rt' = from_dotbracketstring(enc.val)
    /\ UNCHANGED <<src, dbs, paired, dec, enc, pk, met, rec, ct, scan>>

\* is_pseudoknotted(&paired)
Classify ==
    /\ HasPaired
    /\ pk = None
    /\ pk' = is_pseudoknotted(paired)
    /\ UNCHANGED <<src, dbs, paired, dec, enc, rt, met, rec, ct, scan>>

Next == Decode \/ Encode \/ Redecode \/ Classify

Spec == Init /\ [][Next]_vars

---------------------------------------------------------------------------
(* The metric state machine: a caller holds two arrays a and b and an      *)
(* exponent p and calls the functions of distance_metrics.rs on them.      *)

\* arrays that do not satisfy symmetric pairing
AsymmetricArrays == { <<2, 0>>, <<3, 0, 0>> }

MetricArrays ==
    UNION {SymmetricArrays(n) : n \in 0..MaxMetricLen} \cup AsymmetricArrays

Exponents == {None, Some(0), Some(1), Some(2)}

CodecIdle ==
    /\ src = "none"
    /\ dbs = <<>>
    /\ paired = <<>>
    /\ dec = None
    /\ enc = None
    /\ rt = None
    /\ pk = None

InitMetric ==
    /\ CodecIdle
    /\ rec = Idle
    /\ ct = Idle
    /\ scan = Idle
    /\ \E a \in MetricArrays, b \in MetricArrays, p \in Exponents :
           met = [a |-> a, b |-> b, p |-> p, d |-> None, swapped |-> None,
                  diameter |-> None, normalised |-> None, weighted |-> None]

MountainDistance ==
    /\ met.d = None
    /\ met' = [met EXCEPT !.d = get_mountain_distance(met.a, met.b, met.p)]
    /\ UNCHANGED <<src, dbs, paired, dec, enc, rt, pk, rec, ct, scan>>

\* the same call with the two arrays exchanged
MountainDistanceSwapped ==
    /\ met.swapped = None
    /\ met' = [met EXCEPT !.swapped = get_mountain_distance(met.b, met.a, met.p)]
    /\ UNCHANGED <<src, dbs, paired, dec, enc, rt, pk, rec, ct, scan>>

MountainDiameter ==
    /\ met.diameter = None
    /\ met' = [met EXCEPT
                  !.diameter = [tag |-> "Ok",
                                val |-> get_mountain_diameter(Len(met.a), met.p)]]
    /\ UNCHANGED <<src, dbs, paired, dec, enc, rt, pk, rec, ct, scan>>

NormalisedMountainDistance ==
    /\ met.normalised = None
    /\ met' = [met EXCEPT
                  !.normalised =
                      get_normalised_mountain_distance(met.a, met.b, met.p)]
    /\ UNCHANGED <<src, dbs, paired, dec, enc, rt, pk, rec, ct, scan>>

WeightedMountainVector ==
    /\ met.weighted = None
    /\ met' = [met EXCEPT
                  !.weighted = [tag |-> "Ok",
                                val |-> get_weighted_mountain_vector(met.a)]]
    /\ UNCHANGED <<src, dbs, paired, dec, enc, rt, pk, rec, ct, scan>>

NextMetric ==
    \/ MountainDistance
    \/ MountainDistanceSwapped
    \/ MountainDiameter
    \/ NormalisedMountainDistance
    \/ WeightedMountainVector

SpecMetric == InitMetric /\ [][NextMetric]_vars

---------------------------------------------------------------------------
(* SecondaryStructureRecord: a caller constructs a record with new or by   *)
(* parsing a bracket string, then calls set_sequence and set_paired on it. *)

\* SecondaryStructureRecord::new with an empty sequence
new_empty_sequence(paired_) ==
    [name |-> <<>>, sequence |-> <<>>, paired |-> paired_]

\* SecondaryStructureRecord::new
new(paired_) ==
    [name |-> <<>>,
     sequence |-> [k \in 1..Len(paired_) |-> "N"],
     paired |-> paired_]

\* impl FromStr for SecondaryStructureRecord
from_str(s) ==
    LET r == from_dotbracketstring(s)
    IN  IF r.tag = "Ok" THEN [tag |-> "Ok", val |-> new(r.val)] ELSE r

set_sequence(self, sequence) == [self EXCEPT !.sequence = sequence]

set_paired(self, paired_) == [self EXCEPT !.paired = paired_]

Nucleotides == {"A", "N"}

RecordSequences == UNION {[1..n -> Nucleotides] : n \in 0..MaxRecordLen}

RecordArrays == UNION {SymmetricArrays(n) : n \in 0..MaxRecordLen}

RecordStrings == UNION {[1..n -> {"(", ")", "."}] : n \in 0..MaxRecordLen}

Unbuilt == [tag |-> "Unbuilt"]

\* the record, and the call that produced its present value
Built(self, op, arg) ==
    [tag |-> "Record", self |-> self, last |-> [op |-> op, arg |-> arg]]

InitRecord ==
    /\ CodecIdle
    /\ met = Idle
    /\ ct = Idle
    /\ scan = Idle
    /\ rec = Unbuilt

New ==
    /\ rec = Unbuilt
    /\ \E p \in RecordArrays : rec' = Built(new(p), "new", p)
    /\ UNCHANGED <<src, dbs, paired, dec, enc, rt, pk, met, ct, scan>>

FromStr ==
    /\ rec = Unbuilt
    /\ \E s \in RecordStrings :
           LET r == from_str(s)
           IN  rec' = IF r.tag = "Ok" THEN Built(r.val, "from_str", s)
                      ELSE [tag |-> "Failed", result |-> r]
    /\ UNCHANGED <<src, dbs, paired, dec, enc, rt, pk, met, ct, scan>>

SetSequence ==
    /\ rec.tag = "Record"
    /\ \E s \in RecordSequences :
           rec' = Built(set_sequence(rec.self, s), "set_sequence", s)
    /\ UNCHANGED <<src, dbs, paired, dec, enc, rt, pk, met, ct, scan>>

SetPaired ==
    /\ rec.tag = "Record"
    /\ \E p \in RecordArrays :
           rec' = Built(set_paired(rec.self, p), "set_paired", p)
    /\ UNCHANGED <<src, dbs, paired, dec, enc, rt, pk, met, ct, scan>>

NextRecord == New \/ FromStr \/ SetSequence \/ SetPaired

SpecRecord == InitRecord /\ [][NextRecord]_vars

---------------------------------------------------------------------------
(* io.rs: the connect (CT) format.  A text is a sequence of chars.         *)

TAB == "\t"
NL == "\n"
CR == "\r"

\* the chars that trim and split_whitespace take for white space, among the
\* chars of the model's texts (all of them one byte long)
Whitespace == {" ", TAB, NL, CR}

Digits == <<"0", "1", "2", "3", "4", "5", "6", "7", "8", "9">>

RECURSIVE format_int(_)
\* format!("{}", n) for an integer n
format_int(n) ==
    IF n < 0 THEN <<"-">> \o format_int(-n)
    ELSE IF n < 10 THEN <<Digits[n + 1]>>
    ELSE format_int(n \div 10) \o <<Digits[(n % 10) + 1]>>

RECURSIVE DigitsValue(_, _, _)
\* the number written by the digits of s from position k on, after acc
DigitsValue(s, k, acc) ==
    IF k > Len(s) THEN acc
    ELSE DigitsValue(s, k + 1, 10 * acc + Find(Digits, s[k]))

\* s.parse::<i64>(): an optional sign, then one digit or more, nothing else
parse_i64(s) ==
    LET signed == Len(s) > 0 /\ s[1] \in {"+", "-"}
        first == IF signed THEN 2 ELSE 1
    IN  IF first > Len(s) \/ \E k \in first..Len(s) : ~Contains(Digits, s[k])
        THEN [tag |-> "Err", kind |-> "ParseIntError"]
        ELSE [tag |-> "Ok",
              val |-> IF signed /\ s[1] = "-"
                      THEN -DigitsValue(s, first, 0)
                      ELSE DigitsValue(s, first, 0)]

\* the k-th smallest member of a set of positions
Kth(S, k) == CHOOSE e \in S : Cardinality({x \in S : x <= e}) = k

RECURSIVE LinesFrom(_, _, _)
\* str::lines from position k on: a line ends at "\n", a "\r" just before
\* that "\n" belongs to the line ending, and a last line without "\n" is a
\* line as it stands
LinesFrom(text_, k, acc) ==
    IF k > Len(text_) THEN acc
    ELSE LET ends == {i \in k..Len(text_) : text_[i] = NL}
         IN  IF ends = {} THEN Append(acc, SubSeq(text_, k, Len(text_)))
             ELSE LET e == CHOOSE i \in ends : \A x \in ends : i <= x
                      stop == IF e > k /\ text_[e - 1] = CR THEN e - 2 ELSE e - 1
                  IN  LinesFrom(text_, e + 1, Append(acc, SubSeq(text_, k, stop)))

lines(text_) == LinesFrom(text_, 1, <<>>)

\* line.trim().split_whitespace().collect::<Vec<&str>>()
split_whitespace(line) ==
    LET n      == Len(line)
        inword == {i \in 1..n : line[i] \notin Whitespace}
        starts == {i \in inword : i = 1 \/ (i - 1) \notin inword}
        stops  == {i \in inword : i = n \/ (i + 1) \notin inword}
    IN  [k \in 1..Cardinality(starts) |->
            SubSeq(line, Kth(starts, k), Kth(stops, k))]

starts_with(s, c) == Len(s) > 0 /\ s[1] = c

\* the struct literal SecondaryStructureRecord { name, sequence, paired }
Record(name, sequence, paired_) ==
    [name |-> name, sequence |-> sequence, paired |-> paired_]

\* the `ls.push(...)` of the record read so far
PushRecord(st) ==
    [st EXCEPT !.ls = Append(@, Record(st.name, st.sequence, st.paired))]

\* ParseLine leaving the sequence as it is when a header ends a record
ParseLine_no_reset(st, line) ==
    LET spl == split_whitespace(line)
    IN  IF Len(spl) > 0 /\ starts_with(spl[1], ">")
        THEN LET st1 == IF Len(st.paired) > 0
                        THEN [PushRecord(st) EXCEPT !.paired = <<>>]
                        ELSE st
             IN  [st1 EXCEPT !.name = SubSeq(line, 2, Len(line))]
        ELSE IF /\ Len(spl) >= 6
                /\ parse_i64(spl[1]).tag = "Ok"
                /\ parse_i64(spl[6]).tag = "Ok"
        THEN LET j == parse_i64(spl[5])
             IN  IF j.tag # "Ok" THEN [tag |-> "Panic"]
                 ELSE [st EXCEPT !.sequence = @ \o spl[2],
                                 !.paired = Append(@, j.val)]
        ELSE st

\* one iteration of `for line in ct_string.lines()`; line[1..] starts after
\* the first byte of the line, which is '>' or a one-byte white space
ParseLine(st, line) ==
    LET spl == split_whitespace(line)
    IN  IF Len(spl) > 0 /\ starts_with(spl[1], ">")
        THEN LET st1 == IF Len(st.paired) > 0
                        THEN [PushRecord(st) EXCEPT !.sequence = <<>>,
                                                    !.paired = <<>>]
                        ELSE st
             IN  [st1 EXCEPT !.name = SubSeq(line, 2, Len(line))]
        ELSE IF /\ Len(spl) >= 6
                /\ parse_i64(spl[1]).tag = "Ok"
                /\ parse_i64(spl[6]).tag = "Ok"
        THEN LET j == parse_i64(spl[5])
             IN  IF j.tag # "Ok" THEN [tag |-> "Panic"]
                 ELSE [st EXCEPT !.sequence = @ \o spl[2],
                                 !.paired = Append(@, j.val)]
        ELSE st

RECURSIVE ParseScan(_, _, _)
\* the loop over the lines from the k-th on
ParseScan(ls_, st, k) ==
    IF st.tag = "Panic" \/ k > Len(ls_) THEN st
    ELSE ParseScan(ls_, ParseLine(st, ls_[k]), k + 1)

parse_ct_string(ct_string) ==
    LET st == ParseScan(lines(ct_string),
                        [tag |-> "Run", ls |-> <<>>, sequence |-> <<>>,
                         paired |-> <<>>, name |-> <<>>], 1)
    IN  IF st.tag = "Panic" THEN st
        ELSE [tag |-> "Ok",
              val |-> IF Len(st.paired) > 0 THEN PushRecord(st).ls ELSE st.ls]

RECURSIVE WriteSites(_, _, _)
\* `for (i, (c, j)) in it.enumerate()` of write_ct from 0-based index i on;
\* the zip stops at the shorter of the sequence and the array
WriteSites(ss, i, acc) ==
    IF i >= Len(ss.sequence) \/ i >= Len(ss.paired) THEN acc
    ELSE WriteSites(ss, i + 1,
             acc \o format_int(i + 1) \o <<TAB, ss.sequence[i + 1], TAB>>
                 \o format_int(i) \o <<TAB>> \o format_int(i + 2) \o <<TAB>>
                 \o format_int(ss.paired[i + 1]) \o <<TAB>>
                 \o format_int(i + 1) \o <<NL>>)

write_ct(ss) == WriteSites(ss, 0, <<">">> \o ss.name \o <<NL>>)

get_ct_string(ss) == write_ct(ss)

RECURSIVE BlankLines(_)
BlankLines(n) == IF n = 0 THEN <<>> ELSE <<NL>> \o BlankLines(n - 1)

RECURSIVE WriteStream(_, _, _, _)
\* the caller's `ct_string.push_str(&io::get_ct_string(&ss))` for each record,
\* with gaps[k] blank lines pushed after the k-th record
WriteStream(records, gaps, k, acc) ==
    IF k > Len(records) THEN acc
    ELSE WriteStream(records, gaps, k + 1,
             acc \o get_ct_string(records[k])
                 \o (IF k < Len(records) THEN BlankLines(gaps[k]) ELSE <<>>))

\* records of the crate's doc comments and tests, and records with names,
\* chars and values at the edges of the format
CtRecords ==
    { Record(<<"e", "x">>, <<"C", "G", "A", "A", "C", "A", "A", "G">>,
             <<8, 5, 0, 0, 2, 0, 0, 1>>),
      Record(<<"t", "e", "n">>,
             <<"C", "C", "A", "A", "A", "A", "A", "A", "G", "G">>,
             <<10, 9, 0, 0, 0, 0, 0, 0, 2, 1>>),
      Record(<<>>, <<"A">>, <<0>>),
      Record(<<" ", "a", " ", "b", " ">>, <<">", "G">>, <<2, 1>>),
      Record(<<">", "1", TAB, "C", TAB, "0", TAB, "2", TAB, "0", TAB, "1">>,
             <<"N", "N">>, <<-1, 10>>),
      Record(<<"n", "o", "n", "e">>, <<>>, <<>>),
      Record(<<"s", "h", "o", "r", "t">>, <<"A">>, <<2, 1>>),
      Record(<<"c", "r", CR>>, <<"A", " ">>, <<0, 0>>) }

RECURSIVE SeqsUpTo(_, _)
\* the sequences of at most n members of S
SeqsUpTo(S, n) ==
    IF n = 0 THEN {<<>>}
    ELSE LET shorter == SeqsUpTo(S, n - 1)
         IN  shorter \cup {Append(s, x) : s \in {r \in shorter : Len(r) = n - 1}, x \in S}

InitCT ==
    /\ CodecIdle
    /\ met = Idle
    /\ rec = Idle
    /\ scan = Idle
    /\ \E records \in SeqsUpTo(CtRecords, MaxRecords) :
           \E gaps \in [1..(Len(records) - 1) -> 0..MaxBlankLines] :
               ct = [records |-> records, gaps |-> gaps,
                     text |-> None, parsed |-> None]

\* the caller writes the records to one string
GetCtStrings ==
    /\ ct.text = None
    /\ ct' = [ct EXCEPT
                 !.text = [tag |-> "Ok",
                           val |-> WriteStream(ct.records, ct.gaps, 1, <<>>)]]
    /\ UNCHANGED <<src, dbs, paired, dec, enc, rt, pk, met, rec, scan>>

ParseCtString ==
    /\ ct.text # None
    /\ ct.parsed = None
    /\ ct' = [ct EXCEPT !.parsed = parse_ct_string(ct.text.val)]
    /\ UNCHANGED <<src, dbs, paired, dec, enc, rt, pk, met, rec, scan>>

NextCT == GetCtStrings \/ ParseCtString

SpecCT == InitCT /\ [][NextCT]_vars

---------------------------------------------------------------------------
(* get_dot_bracket_string site by site: the caller's array, the index i    *)
(* the loop is at, the stacks and the string written so far, and what the  *)
(* last iteration did.                                                     *)

\* the class of the closing branch: the left bracket written at the partner
\* (`dbn.chars().nth((j - 1) as usize)`, then `LEFT_BRACKETS.find(left)`)
ClosingClass(st, j) == Find(LEFT_BRACKETS, st.dbn[j])

\* what `stacks.get_mut(index).unwrap().pop()` returns
PopValue(st, j) ==
    LET stack == st.stacks[ClosingClass(st, j) + 1]
    IN  IF stack = <<>> THEN None ELSE Some(Last(stack))

\* what the iteration at index i with partner value j does: nothing to the
\* stacks, a push, a pop (with the class and the value popped), or an exit
\* from the loop: the `return Err(..)` of the opening branch when no class
\* accepts j, or an .unwrap() on None in the closing branch
Iteration(st, i, j) ==
    IF j = 0 THEN [op |-> "unpaired", i |-> i]
    ELSE IF EncStep(st, i, j).tag # "Run" THEN [op |-> "exit", i |-> i]
    ELSE IF i < j THEN [op |-> "open", i |-> i]
    ELSE [op |-> "close", i |-> i, class |-> ClosingClass(st, j),
          popped |-> PopValue(st, j)]

InitScan ==
    /\ CodecIdle
    /\ met = Idle
    /\ rec = Idle
    /\ ct = Idle
    /\ \E p \in ArrayInputs :
           scan = [paired |-> p, i |-> 0, st |-> EncInit, last |-> None,
                   result |-> None]

\* one iteration of the loop over the sites
ScanSite ==
    /\ scan.result = None
    /\ scan.st.tag = "Run"
    /\ scan.i < Len(scan.paired)
    /\ LET j == scan.paired[scan.i + 1]
       IN  scan' = [scan EXCEPT !.st = EncStep(scan.st, scan.i, j),
                                !.i = @ + 1,
                                !.last = Iteration(scan.st, scan.i, j)]
    /\ UNCHANGED <<src, dbs, paired, dec, enc, rt, pk, met, rec, ct>>

\* the return: Ok(dbn) after the last site, or the exit taken in the loop
ScanReturn ==
    /\ scan.result = None
    /\ scan.st.tag # "Run" \/ scan.i >= Len(scan.paired)
    /\ scan' = [scan EXCEPT
                   !.result = IF scan.st.tag # "Run" THEN scan.st
                              ELSE [tag |-> "Ok", val |-> scan.st.dbn]]
    /\ UNCHANGED <<src, dbs, paired, dec, enc, rt, pk, met, rec, ct>>

NextScan == ScanSite \/ ScanReturn

SpecScan == InitScan /\ [][NextScan]_vars

---------------------------------------------------------------------------
(* Vocabulary of the properties *)

Ok(v) == [tag |-> "Ok", val |-> v]

\* symmetric pairing: every value is 0 or a position 1..N, no site pairs with
\* itself, and the partner of a site's partner is the site
SymmetricPairing(p) ==
    \A k \in 1..Len(p) :
        /\ p[k] \in 0..Len(p)
        /\ p[k] # k
        /\ p[k] # 0 => p[p[k]] = k

\* the pairs <<i, j>>, i < j, of an array (1-based positions)
Pairs(p) == {<<k, p[k]>> : k \in {n \in 1..Len(p) : p[n] > n}}

\* two pairs (i, j), (k, l) with i < k < j < l
HasCrossing(p) ==
    \E a, b \in Pairs(p) : a[1] < b[1] /\ b[1] < a[2] /\ a[2] < b[2]

\* the number of occurrences of c among the first n chars of s
Count(s, c, n) == Cardinality({m \in 1..n : s[m] = c})

\* every char of s is a bracket of the alphabet or the unpaired marker
OverAlphabet(s) ==
    \A n \in 1..Len(s) :
        is_left_bracket(s[n]) \/ is_right_bracket(s[n]) \/ s[n] = "."

\* the brackets of each class are balanced: no prefix has more right than left
\* brackets of a class, and the whole string has as many of each
Balanced(s) ==
    \A k \in 1..Len(LEFT_BRACKETS) :
        /\ \A n \in 0..Len(s) :
               Count(s, RIGHT_BRACKETS[k], n) <= Count(s, LEFT_BRACKETS[k], n)
        /\ Count(s, RIGHT_BRACKETS[k], Len(s)) = Count(s, LEFT_BRACKETS[k], Len(s))

\* the bracket classes (1-based) that occur in s
ClassesOf(s) ==
    {k \in 1..Len(LEFT_BRACKETS) :
        Contains(s, LEFT_BRACKETS[k]) \/ Contains(s, RIGHT_BRACKETS[k])}

\* the string that writes the pairs of p with the classes f gives them
Writing(p, f) ==
    [n \in 1..Len(p) |->
        IF p[n] = 0 THEN "."
        ELSE IF p[n] > n THEN LEFT_BRACKETS[f[<<n, p[n]>>]]
        ELSE RIGHT_BRACKETS[f[<<p[n], n>>]]]

\* some bracket string with at most k distinct classes decodes to p
Writable(p, k) ==
    \E f \in [Pairs(p) -> 1..k] : from_dotbracketstring(Writing(p, f)) = Ok(p)

\* the least number of classes of a bracket string that decodes to p
MinClasses(p) ==
    CHOOSE k \in 0..Cardinality(Pairs(p)) :
        Writable(p, k) /\ \A m \in 0..(k - 1) : ~Writable(p, m)

---------------------------------------------------------------------------
(* C1 *)

\* C1: round trip: for a paired sites array that satisfies symmetric pairing
\* (in particular one parsed from a string) and that the encoder encodes,
\* decoding the encoded string returns Ok of the same array.
C1_RoundTrip ==
    (SymmetricPairing(paired) /\ HasPaired /\ enc.tag = "Ok" /\ rt # None)
        => rt = Ok(paired)

\* a crossing structure that needed a second class has made the round trip
C1_Witness ==
    /\ src = "array"
    /\ SymmetricPairing(paired)
    /\ HasCrossing(paired)
    /\ enc.tag = "Ok"
    /\ rt = Ok(paired)

---------------------------------------------------------------------------
(* C2 *)

\* C2: a string over the alphabet plus '.' whose brackets are balanced in
\* every class decodes to Ok(p), p has one entry per char, every entry is 0 or
\* in 1..N, pairs are mutually symmetric and no site pairs with itself.
C2_DecodeBalanced ==
    (src = "string" /\ dec # None /\ OverAlphabet(dbs) /\ Balanced(dbs))
        => /\ dec.tag = "Ok"
           /\ Len(dec.val) = Len(dbs)
           /\ SymmetricPairing(dec.val)

\* a balanced string with two crossing classes has been decoded
C2_Witness ==
    /\ src = "string"
    /\ OverAlphabet(dbs) /\ Balanced(dbs)
    /\ Cardinality(ClassesOf(dbs)) >= 2
    /\ dec.tag = "Ok"
    /\ HasCrossing(dec.val)

---------------------------------------------------------------------------
(* C3 *)

\* C3: for an array that satisfies symmetric pairing is_pseudoknotted returns
\* Ok(b), never InputConsumed or InputNotConsumed, and b is true exactly when
\* two pairs (i,j), (k,l) have i<k<j<l; it is false for every array decoded
\* from a string that uses a single bracket class.
C3_Pseudoknotted ==
    /\ (HasPaired /\ SymmetricPairing(paired) /\ pk # None)
           => pk = Ok(HasCrossing(paired))
    /\ (src = "string" /\ dec.tag = "Ok" /\ Cardinality(ClassesOf(dbs)) <= 1
        /\ pk # None)
           => pk = Ok(FALSE)

\* a structure with crossing pairs, one of them opened after another pair has
\* closed, has been classified as pseudoknotted
C3_Witness ==
    /\ HasPaired
    /\ SymmetricPairing(paired)
    /\ \E a, b \in Pairs(paired) : a[2] < b[1]
    /\ pk = Ok(TRUE)

---------------------------------------------------------------------------
(* C4 *)

\* the number of distinct bracket classes used in an encoded string
ClassesUsed(s) == Cardinality({k \in 1..Len(LEFT_BRACKETS) : Contains(s, LEFT_BRACKETS[k])})

\* the arrays whose class assignments the model enumerates
Colourable(p) == SymmetricPairing(p) /\ Cardinality(Pairs(p)) <= MaxColourPairs

\* C4 as stated: for every valid array the encoder encodes, the number of
\* distinct classes in the output is the minimum number of classes with which
\* a bracket string that decodes to the array can be written.
C4_GreedyIsMinimal ==
    (HasPaired /\ Colourable(paired) /\ enc.tag = "Ok")
        => ClassesUsed(enc.val) = MinClasses(paired)

\* C4 as amended: the number of distinct classes in the output is never less
\* than the minimum, and it is the minimum whenever the array has no crossing
\* pairs or at most three pairs; with four pairs or more the first-fit choice
\* can use more classes than needed.
C4_GreedyBound ==
    (HasPaired /\ Colourable(paired) /\ enc.tag = "Ok")
        => /\ ClassesUsed(enc.val) >= MinClasses(paired)
           /\ (~HasCrossing(paired) \/ Cardinality(Pairs(paired)) <= 3)
                  => ClassesUsed(enc.val) = MinClasses(paired)

\* three pairs, two of them crossing and one reusing the first class, encoded
\* with the two classes the structure needs
C4_Witness ==
    /\ src = "array"
    /\ SymmetricPairing(paired)
    /\ Cardinality(Pairs(paired)) = 3
    /\ HasCrossing(paired)
    /\ enc.tag = "Ok"
    /\ ClassesUsed(enc.val) = 2
    /\ MinClasses(paired) = 2

---------------------------------------------------------------------------
(* C5 *)

\* the 1-based position n of s holds a right bracket while no left bracket of
\* its class is pending
UnmatchedRightAt(s, n) ==
    /\ is_right_bracket(s[n])
    /\ LET k == Find(RIGHT_BRACKETS, s[n]) + 1
       IN  Count(s, LEFT_BRACKETS[k], n - 1) = Count(s, RIGHT_BRACKETS[k], n - 1)

\* the first such position is the one the scan reaches
FirstUnmatchedRight(s) ==
    CHOOSE n \in 1..Len(s) :
        UnmatchedRightAt(s, n) /\ \A m \in 1..(n - 1) : ~UnmatchedRightAt(s, m)

\* C5: when the scan reaches a right bracket of any class at 0-based index i
\* with no left bracket of that class pending, from_dotbracketstring returns
\* Err(MissingLeftParentheses) with that right symbol, its left symbol and
\* pos = i + 1, and never aborts instead.
C5_MissingLeftReported ==
    (src = "string" /\ dec # None /\ \E n \in 1..Len(dbs) : UnmatchedRightAt(dbs, n))
        => LET n == FirstUnmatchedRight(dbs)
           IN  dec = [tag |-> "Err", kind |-> "MissingLeftParentheses",
                      left |-> LEFT_BRACKETS[Find(RIGHT_BRACKETS, dbs[n]) + 1],
                      right |-> dbs[n], pos |-> n]

---------------------------------------------------------------------------
(* C6 *)

\* C6: from_dotbracketstring returns Err(BracketTypeNotRecognised) for every
\* string that holds a char that is no left bracket, no right bracket and not
\* '.'; such a string never decodes to an array.
C6_UnrecognisedRejected ==
    (src = "string" /\ dec # None /\ ~OverAlphabet(dbs))
        => dec.tag = "Err" /\ dec.kind = "BracketTypeNotRecognised"

---------------------------------------------------------------------------
(* C7 *)

\* C7: get_dot_bracket_string returns Ok(string) or a typed error for every
\* array of integers, also one that violates symmetric pairing; it panics on
\* no input.
C7_EncodeNeverPanics ==
    (src = "array" /\ enc # None) => enc.tag \in {"Ok", "Err"}

---------------------------------------------------------------------------
(* C8 *)

\* the scan of p reaches some opening site with every class of the alphabet
\* holding a non-empty pending stack whose top is not greater than the site's
\* partner
Exhausted(p) ==
    \E n \in 1..Len(p) :
        /\ p[n] > n - 1
        /\ LET st == EncScan(p, EncInit, 1, n - 1)
           IN  /\ st.tag = "Run"
               /\ Len(st.stacks) >= Len(LEFT_BRACKETS)
               /\ \A k \in 1..Len(LEFT_BRACKETS) :
                      st.stacks[k] # <<>> /\ Last(st.stacks[k]) <= p[n]

\* C8: for a valid array the encoder returns Err(InsufficientBracketTypes)
\* exactly when some opening site finds every class with a non-empty pending
\* stack whose top is not greater than its partner; otherwise it returns a
\* string of length N.
C8_InsufficientExactly ==
    (src = "array" /\ SymmetricPairing(paired) /\ enc # None)
        => IF Exhausted(paired)
           THEN enc = [tag |-> "Err", kind |-> "InsufficientBracketTypes"]
           ELSE enc.tag = "Ok" /\ Len(enc.val) = Len(paired)

\* a valid array with one pair more than the alphabet has classes, all
\* crossing, has been refused
C8_Witness ==
    /\ src = "array"
    /\ SymmetricPairing(paired)
    /\ Cardinality(Pairs(paired)) > Len(LEFT_BRACKETS)
    /\ enc = [tag |-> "Err", kind |-> "InsufficientBracketTypes"]

---------------------------------------------------------------------------
(* C9 *)

\* "(((..))..).." and the array the tests give for it
TestString == <<"(", "(", "(", ".", ".", ")", ")", ".", ".", ")", ".", ".">>
TestPaired == <<10, 7, 6, 0, 0, 3, 2, 0, 0, 1, 0, 0>>

\* s uses only '(', ')' and '.'
OnlyParentheses(s) == \A n \in 1..Len(s) : s[n] \in {"(", ")", "."}

\* C9: a well-formed string of '(', ')' and '.' decodes, and encoding the
\* decoded array gives the string back char for char; "(((..))..).." decodes
\* to [10,7,6,0,0,3,2,0,0,1,0,0].
C9_ParenthesesRoundTrip ==
    (src = "string" /\ OnlyParentheses(dbs) /\ Balanced(dbs))
        => /\ dec # None => dec.tag = "Ok"
           /\ enc # None => enc = Ok(dbs)
           /\ (dbs = TestString /\ dec # None) => dec = Ok(TestPaired)

\* the test string has been decoded and encoded back
C9_Witness ==
    /\ src = "string"
    /\ dbs = TestString
    /\ dec = Ok(TestPaired)
    /\ enc = Ok(TestString)

---------------------------------------------------------------------------
(* C10 *)

\* "<(a..A)..>..", the string of tests/secondary_structure_test.rs
LetterTestString == <<"<", "(", "a", ".", ".", "A", ")", ".", ".", ">", ".", ".">>

\* C10: parsing "<(a..A)..>.." succeeds and yields
\* [10,7,6,0,0,3,2,0,0,1,0,0]: a lowercase letter followed by the same letter
\* in uppercase is matched like any other bracket pair.
C10_LetterPairParsed ==
    (src = "string" /\ dbs = LetterTestString /\ dec # None) => dec = Ok(TestPaired)

---------------------------------------------------------------------------
(* C11 *)

\* "((..)..).A>..a", the string as the claim has it
ClaimedExample ==
    <<"(", "(", ".", ".", ")", ".", ".", ")", ".", "A", ">", ".", ".", "a">>

\* "<((..)..).A>..a", the string of examples/structure_io_example.rs
CrateExample ==
    <<"<", "(", "(", ".", ".", ")", ".", ".", ")", ".", "A", ">", ".", ".", "a">>

\* C11 as stated: from_dotbracketstring("((..)..).A>..a") succeeds and
\* is_pseudoknotted of the resulting array returns true.
C11_ClaimedExampleDecodes ==
    (src = "string" /\ dbs = ClaimedExample /\ dec # None)
        => /\ dec.tag = "Ok"
           /\ pk # None => pk = Ok(TRUE)

\* C11 as amended: "((..)..).A>..a" has a '>' with no '<' pending and fails
\* with MissingLeftParentheses for '>' at position 11; the crate's example
\* "<((..)..).A>..a" decodes, and is_pseudoknotted of its array returns true.
C11_ExampleDecodes ==
    /\ (src = "string" /\ dbs = ClaimedExample /\ dec # None)
           => dec = [tag |-> "Err", kind |-> "MissingLeftParentheses",
                     left |-> "<", right |-> ">", pos |-> 11]
    /\ (src = "string" /\ dbs = CrateExample /\ dec # None)
           => /\ dec = Ok(<<12, 9, 6, 0, 0, 3, 0, 0, 2, 0, 15, 1, 0, 0, 11>>)
              /\ pk # None => pk = Ok(TRUE)

\* the crate's example has been decoded and classified
C11_Witness ==
    /\ src = "string"
    /\ dbs = CrateExample
    /\ dec.tag = "Ok"
    /\ pk = Ok(TRUE)

---------------------------------------------------------------------------
(* C12 *)

\* the f64 1.0
One == [kind |-> "num", neg |-> FALSE, exp |-> 0,
        man |-> <<1>> \o ZeroBits(MantissaBits - 1)]

\* an f64 x is finite and 0 <= x <= 1
InUnitInterval(x) ==
    \/ x.kind = "zero"
    \/ x.kind = "num" /\ ~x.neg /\ (x.exp < 0 \/ x = One)

\* C12: for valid arrays a and b of the same length L whose mountain diameter
\* is positive, and p = 1, get_mountain_distance(a, b, p) is at most
\* get_mountain_diameter(L, p) and get_normalised_mountain_distance(a, b, p)
\* lies in [0, 1].
C12_DistanceWithinDiameter ==
    (/\ met # Idle
     /\ SymmetricPairing(met.a) /\ SymmetricPairing(met.b)
     /\ Len(met.a) = Len(met.b)
     /\ met.p \in {None, Some(1)}
     /\ met.diameter # None
     /\ met.diameter.val > 0)
        => /\ met.d # None => met.d.val <= met.diameter.val
           /\ met.normalised # None => InUnitInterval(met.normalised.val)

---------------------------------------------------------------------------
(* C13 *)

\* C13: get_mountain_distance and get_normalised_mountain_distance return
\* Err(UnequalLength) exactly when the two arrays differ in length, and Ok
\* otherwise; no other outcome occurs.
C13_UnequalLengthExactly ==
    met # Idle =>
        /\ met.d # None =>
              met.d.tag = (IF Len(met.a) # Len(met.b) THEN "Err" ELSE "Ok")
        /\ met.d # None /\ met.d.tag = "Err" => met.d = UnequalLength
        /\ met.normalised # None =>
              met.normalised.tag
                  = (IF Len(met.a) # Len(met.b) THEN "Err" ELSE "Ok")
        /\ met.normalised # None /\ met.normalised.tag = "Err"
              => met.normalised = UnequalLength

\* both functions have refused two arrays of lengths 3 and 4
C13_Witness ==
    /\ met # Idle
    /\ Len(met.a) = 3
    /\ Len(met.b) = 4
    /\ met.d = UnequalLength
    /\ met.normalised = UnequalLength

---------------------------------------------------------------------------
(* C14 *)

\* C14: for arrays a, b of equal length and every exponent p,
\* get_mountain_distance(a, b, p) equals get_mountain_distance(b, a, p).
C14_DistanceSymmetric ==
    (/\ met # Idle
     /\ Len(met.a) = Len(met.b)
     /\ met.d # None
     /\ met.swapped # None)
        => /\ met.d.tag = "Ok"
           /\ met.d = met.swapped

\* "(.)" against "...": both calls made, the distance is 2 both ways
C14_Witness ==
    /\ met # Idle
    /\ met.a = <<3, 0, 1>>
    /\ met.b = <<0, 0, 0>>
    /\ met.p = Some(1)
    /\ met.d = Ok(2)
    /\ met.swapped = Ok(2)

---------------------------------------------------------------------------
(* C15 *)

\* C15: for every array a and every exponent p, get_mountain_distance(a, a, p)
\* returns Ok(0).
C15_SelfDistanceZero ==
    (met # Idle /\ met.a = met.b /\ met.d # None) => met.d = Ok(0)

---------------------------------------------------------------------------
(* C16 *)

LengthsAgree(self) == Len(self.sequence) = Len(self.paired)

\* C16 as stated: in every state reachable by constructing a record with new
\* or by parsing, then applying any sequence of set_sequence and set_paired
\* calls, the length of the sequence equals the length of the paired array.
C16_LengthsAlwaysAgree ==
    rec.tag = "Record" => LengthsAgree(rec.self)

\* C16 as amended: new and parsing build a record whose sequence is one 'N'
\* per site, so the lengths agree after construction.  set_sequence and
\* set_paired replace their own field with the argument as given and leave
\* the other field alone, so after such a call the lengths agree exactly when
\* the argument is as long as the other field.
C16_LengthsAgreeUnlessSetApart ==
    [][/\ (rec = Unbuilt /\ rec'.tag = "Record")
              => /\ LengthsAgree(rec'.self)
                 /\ \A k \in 1..Len(rec'.self.sequence) :
                        rec'.self.sequence[k] = "N"
       /\ (rec.tag = "Record" /\ rec'.last.op = "set_sequence")
              => /\ rec'.self.sequence = rec'.last.arg
                 /\ rec'.self.paired = rec.self.paired
                 /\ LengthsAgree(rec'.self)
                        <=> Len(rec'.last.arg) = Len(rec.self.paired)
       /\ (rec.tag = "Record" /\ rec'.last.op = "set_paired")
              => /\ rec'.self.paired = rec'.last.arg
                 /\ rec'.self.sequence = rec.self.sequence
                 /\ LengthsAgree(rec'.self)
                        <=> Len(rec'.last.arg) = Len(rec.self.sequence)
      ]_vars

\* set_sequence has given a record of two sites a sequence of three chars
C16_Witness ==
    /\ rec.tag = "Record"
    /\ rec.last.op = "set_sequence"
    /\ Len(rec.self.sequence) = 3
    /\ rec.self.paired = <<2, 1>>

---------------------------------------------------------------------------
(* C17 *)

\* the records the claim is about: a paired array that is not empty, one
\* char that is not white space per site, and a name without a line break
CtWritable(ss) ==
    /\ Len(ss.paired) > 0
    /\ Len(ss.sequence) = Len(ss.paired)
    /\ \A k \in 1..Len(ss.sequence) : ss.sequence[k] \notin Whitespace
    /\ \A k \in 1..Len(ss.name) : ss.name[k] \notin {NL, CR}

\* C17: for every list of such records, parse_ct_string of the concatenation
\* of their get_ct_string texts, with any number of blank lines between the
\* records, returns the same records in the same order, each with the same
\* name, sequence and paired array.
C17_CtRoundTrip ==
    (/\ ct # Idle
     /\ ct.parsed # None
     /\ \A k \in 1..Len(ct.records) : CtWritable(ct.records[k]))
        => ct.parsed = Ok(ct.records)

\* two records, the first with sites numbered up to ten, two blank lines
\* between them, parsed back
C17_Witness ==
    /\ ct # Idle
    /\ Len(ct.records) = 2
    /\ Len(ct.records[1].paired) = 10
    /\ CtWritable(ct.records[2])
    /\ ct.gaps[1] = 2
    /\ ct.parsed = Ok(ct.records)

---------------------------------------------------------------------------
(* C18 *)

\* the left bracket at 1-based position n of s is never closed: no later
\* stretch holds more right than left brackets of its class
UnmatchedLeftAt(s, n) ==
    /\ is_left_bracket(s[n])
    /\ LET k == Find(LEFT_BRACKETS, s[n]) + 1
       IN  \A m \in (n + 1)..Len(s) :
               Count(s, RIGHT_BRACKETS[k], m) - Count(s, RIGHT_BRACKETS[k], n)
                   <= Count(s, LEFT_BRACKETS[k], m) - Count(s, LEFT_BRACKETS[k], n)

UnmatchedLefts(s) == {n \in 1..Len(s) : UnmatchedLeftAt(s, n)}

\* the class (1-based) of the bracket at position n
ClassAt(s, n) == Find(LEFT_BRACKETS, s[n]) + 1

\* the position the code reports: among the unmatched left brackets of the
\* lowest class that has one, the last
ReportedLeft(s) ==
    CHOOSE n \in UnmatchedLefts(s) :
        \A m \in UnmatchedLefts(s) :
            \/ ClassAt(s, n) < ClassAt(s, m)
            \/ ClassAt(s, n) = ClassAt(s, m) /\ m <= n

MissingRight(s, n) ==
    [tag |-> "Err", kind |-> "MissingRightParentheses", left |-> s[n],
     right |-> RIGHT_BRACKETS[ClassAt(s, n)], pos |-> n]

\* C18 as stated: when from_dotbracketstring fails with
\* MissingRightParentheses, pos is the 1-based position of the leftmost left
\* bracket left unmatched, and the error names its symbol and its right symbol.
C18_EarliestOpenReported ==
    (src = "string" /\ dec.tag = "Err" /\ dec.kind = "MissingRightParentheses")
        => LET n == CHOOSE x \in UnmatchedLefts(dbs) :
                        \A y \in UnmatchedLefts(dbs) : x <= y
           IN  dec = MissingRight(dbs, n)

\* C18 as amended: pos is the 1-based position of the top entry of the first
\* non-empty stack in class order, that is the last unmatched left bracket of
\* the lowest class that has one; the error names that bracket's symbol and
\* its matching right symbol.
C18_TopOfLowestClassReported ==
    (src = "string" /\ dec.tag = "Err" /\ dec.kind = "MissingRightParentheses")
        => /\ UnmatchedLefts(dbs) # {}
           /\ dec = MissingRight(dbs, ReportedLeft(dbs))

\* "([<([": the error names the second '(' at position 4, neither the first
\* unmatched bracket nor the last
C18_Witness ==
    /\ src = "string"
    /\ dbs = <<"(", "[", "<", "(", "[">>
    /\ dec = [tag |-> "Err", kind |-> "MissingRightParentheses",
              left |-> "(", right |-> ")", pos |-> 4]

---------------------------------------------------------------------------
(* C19 *)

\* C19: get_mountain_diameter(L, p) is strictly positive for every L >= 2,
\* so get_normalised_mountain_distance of two arrays of length L >= 2 is a
\* division by a non-zero value, with a finite result.
C19_DiameterPositive ==
    (met # Idle /\ Len(met.a) >= 2)
        => /\ met.diameter # None => met.diameter.val > 0
           /\ (Len(met.b) = Len(met.a) /\ met.normalised # None)
                  => met.normalised.val.kind \in {"zero", "num"}

---------------------------------------------------------------------------
(* C20 *)

\* an f64 that is 0 but for the rounding of a few sums of heights
NearZero(x) == x.kind = "zero" \/ (x.kind = "num" /\ x.exp < -40)

\* C20: in get_weighted_mountain_vector of a valid array, for every pair of
\* sites i < j the step added at the opening site is +1/(j - i), the step
\* added at the closing site is -1/(j - i), every entry is finite, and the
\* last entry is 0 (up to the rounding of the sums).
C20_WeightedStepsBalanced ==
    (/\ met # Idle
     /\ SymmetricPairing(met.a)
     /\ met.weighted # None)
        => LET w == met.weighted.val
           IN  /\ \A k \in 1..Len(w) : w[k].kind \in {"zero", "num"}
               /\ \A e \in Pairs(met.a) :
                      /\ WeightedStep(e[1] - 1, met.a[e[1]]) = Div(1, e[2] - e[1])
                      /\ WeightedStep(e[2] - 1, met.a[e[2]]) = Div(-1, e[2] - e[1])
               /\ Len(w) > 0 => NearZero(w[Len(w)])


---------------------------------------------------------------------------
(* C21 *)

\* C21: for every valid array p that get_dot_bracket_string encodes,
\* is_pseudoknotted(p) returns false if and only if the encoded string holds
\* only the chars '(', ')' and '.': the classifier reports a pseudoknot
\* exactly when the encoder leaves bracket class 0.
C21_PseudoknotIffSecondClass ==
    (/\ HasPaired
     /\ SymmetricPairing(paired)
     /\ enc.tag = "Ok"
     /\ pk # None)
        => /\ pk.tag = "Ok"
           /\ pk.val = FALSE <=> OnlyParentheses(enc.val)

\* "([)]" has been encoded with a second class and classified pseudoknotted
C21_Witness ==
    /\ paired = <<3, 4, 1, 2>>
    /\ enc = Ok(<<"(", "<", ")", ">">>)
    /\ pk = Ok(TRUE)

---------------------------------------------------------------------------
(* C22 *)

\* the stack holds values that decrease strictly from bottom to top
StrictlyDecreasing(stack) ==
    \A k \in 1..(Len(stack) - 1) : stack[k] > stack[k + 1]

\* C22: at every step of get_dot_bracket_string on a valid array, the pending
\* stack of every bracket class is strictly decreasing from bottom to top,
\* and when the closing site at 0-based index i is processed, the value
\* popped from the stack of the class read back from the partner's symbol is
\* i + 1.  The closing branch never fails; the only exit from the loop is
\* the InsufficientBracketTypes of an opening site that no class accepts.
C22_StacksDecreasePopsMatch ==
    (scan # Idle /\ SymmetricPairing(scan.paired))
        => /\ scan.st.tag # "Panic"
           /\ scan.st.tag = "Run" =>
                  \A k \in 1..Len(scan.st.stacks) :
                      StrictlyDecreasing(scan.st.stacks[k])
           /\ scan.last # None =>
                  /\ scan.last.op = "exit" =>
                         /\ scan.last.i < scan.paired[scan.last.i + 1]
                         /\ scan.st = [tag |-> "Err",
                                       kind |-> "InsufficientBracketTypes"]
                  /\ scan.last.op = "close" =>
                         scan.last.popped = Some(scan.last.i + 1)

\* "((<)>)": after the inner pair of class 0 has closed, the closing site at
\* index 4 has popped 5 from the stack of the second class, and the outer
\* pair is still pending in class 0
C22_Witness ==
    /\ scan # Idle
    /\ scan.paired = <<6, 4, 5, 2, 3, 1>>
    /\ scan.last = [op |-> "close", i |-> 4, class |-> 1, popped |-> Some(5)]
    /\ scan.st.stacks = << <<6>>, <<>> >>
    /\ scan.st.dbn = <<"(", "(", "<", ")", ">">>

===========================================================================
